---- MODULE Spec2Model ----
(***************************************************************************)
(* Model of app.py: the image-record lifecycle of the Flask OCR service.   *)
(*                                                                         *)
(* State: the ImageProcessing table (records), the upload directory        *)
(* (blobs), the clock that stamps created_at, and for every worker the     *)
(* request it is handling: its inputs, its position in the handler, the    *)
(* SQLAlchemy session object it loaded and the response it produced.       *)
(* History: the ids deleted so far (deleted), for every row that has not    *)
(* been updated since its insert the object its Create returned            *)
(* (createdAs), and for every row the worker whose Update committed last   *)
(* (lastCommit).                                                           *)
(*                                                                         *)
(* Spec      one worker: requests are handled one at a time, each handler  *)
(*           advancing one store access (query, file write, OCR call,      *)
(*           commit) per step.                                             *)
(* SpecRound one worker, authenticated requests whose image parts can be  *)
(*           stored, handled one at a time; keeps createdAs.              *)
(* SpecConc  two workers (the development server is threaded), each        *)
(*           handling one Update or Delete of one existing record; their   *)
(*           steps interleave at every store access; keeps lastCommit.     *)
(***************************************************************************)
EXTENDS Integers, Sequences, FiniteSets, TLC

VARIABLES records, blobs, now, deleted, createdAs, lastCommit, req

vars == <<records, blobs, now, deleted, createdAs, lastCommit, req>>

----------------------------------------------------------------------------
(* Bounds *)

\* number of rows ever inserted (each insert advances the clock by one tick)
MaxCreates == 2

\* worker threads of the server; Spec runs the first one only
Procs == {"w1", "w2"}
SeqProcs == {"w1"}

\* texts the OCR provider may return
Texts == {"TOTAL: $42.10", "other text"}

\* contents of an uploaded file
Bytes == {"img1", "img2"}

\* filenames a client may send in the image part
RawNames == {"", "receipt.png", "../receipt.png", "b.png", ".."}

\* ids a client may put in the URL
ReqIds == 1..MaxCreates

None == "None"
Failure == "Failure"

----------------------------------------------------------------------------
(* Configuration and library functions used by the handlers *)

UPLOAD_FOLDER == "uploads"

\* werkzeug.utils.secure_filename on the names of RawNames: path separators
\* become "_", then leading and trailing "." and "_" are stripped.
secure_filename(f) ==
    CASE f = "receipt.png"    -> "receipt.png"
      [] f = "../receipt.png" -> "receipt.png"
      [] f = "b.png"          -> "b.png"
      [] f = ".."             -> ""
      [] OTHER                -> ""

\* os.path.join(UPLOAD_FOLDER, filename)
join(folder, filename) == folder \o "/" \o filename

\* the upload folder itself (created at start-up): open(path, "wb") on it raises
IsDir(path) == path = UPLOAD_FOLDER \o "/"

\* os.path.exists on a file of the upload folder
exists(path) == path \in DOMAIN blobs

\* FileStorage.save(path): writes the bytes, replacing any file at that path
save(store, path, bytes) ==
    [q \in (DOMAIN store) \cup {path} |-> IF q = path THEN bytes ELSE store[q]]

\* a remove that leaves the file in place
remove_noop(store, path) == store

\* os.remove(path)
remove(store, path) == [q \in (DOMAIN store) \ {path} |-> store[q]]

\* datetime.isoformat() of the clock tick t
isoformat(t) == "2024-01-01T00:00:0" \o ToString(t)

----------------------------------------------------------------------------
(* The data model *)

\* a row whose text_result is a default text instead of the OCR result
ImageProcessing_default_text(i, path, text, created) ==
    [id |-> i, image_path |-> path, text_result |-> "", created_at |-> created]

\* a row of ImageProcessing
ImageProcessing(i, path, text, created) ==
    [id |-> i, image_path |-> path, text_result |-> text, created_at |-> created]

to_dict(image) ==
    [id |-> image.id, image_path |-> image.image_path,
     text_result |-> image.text_result,
     created_at |-> isoformat(image.created_at)]

Max(S) == CHOOSE m \in S : \A n \in S : n <= m

\* SQLite INTEGER PRIMARY KEY without AUTOINCREMENT: the new rowid is one
\* more than the largest rowid currently in the table
NextId(rows) == IF DOMAIN rows = {} THEN 1 ELSE Max(DOMAIN rows) + 1

\* session.add(row); session.commit()
Insert(rows, row) ==
    [i \in (DOMAIN rows) \cup {row.id} |-> IF i = row.id THEN row ELSE rows[i]]

\* session.delete(row); session.commit()
DeleteRow(rows, i) == [j \in (DOMAIN rows) \ {i} |-> rows[j]]

\* history keeping: h with key k set to v, and h without key k
Remember(h, k, v) == [j \in (DOMAIN h) \cup {k} |-> IF j = k THEN v ELSE h[j]]
Forget(h, k) == [j \in (DOMAIN h) \ {k} |-> h[j]]

----------------------------------------------------------------------------
(* Requests *)

Idle ==
    [pc |-> "idle", op |-> None, id |-> 0, token |-> FALSE,
     hasImage |-> FALSE, filename |-> None, bytes |-> None, hasPrompt |-> FALSE,
     image |-> None, loaded |-> None, image_path |-> None, result |-> None,
     ocrCalls |-> 0, ocrPath |-> None, saved |-> FALSE, found |-> FALSE,
     status |-> 0, body |-> None, pre |-> None, afterDelete |-> 0]

InFlight(r) == r.pc \notin {"idle", "done"}

\* the handler returns: the response is sent and the session is removed
Respond(r, status, body) ==
    [r EXCEPT !.pc = "done", !.status = status, !.body = body]

\* an exception escapes the handler: 500, and the session is rolled back
Abort(r) == Respond(r, 500, "Internal Server Error")

\* the response has been sent and worker p is free for the next request;
\* afterDelete remembers the id a Delete has just removed, for the request
\* that follows it
Return(p) ==
    /\ req[p].pc = "done"
    /\ req' = [req EXCEPT ![p] =
                 [Idle EXCEPT !.afterDelete =
                     IF req[p].op = "delete" /\ req[p].status = 204
                     THEN req[p].id ELSE 0]]
    /\ UNCHANGED <<records, blobs, now, deleted>>

\* a request arrives at worker p
Arrive(p, op, i, token, hasImage, filename, bytes, hasPrompt) ==
    /\ req[p].pc = "idle"
    /\ req' = [req EXCEPT ![p] =
                 [req[p] EXCEPT !.pc = IF op = "delete" THEN "load" ELSE "gate",
                              !.op = op, !.id = i, !.token = token,
                              !.hasImage = hasImage, !.filename = filename,
                              !.bytes = bytes, !.hasPrompt = hasPrompt,
                              !.pre = [records |-> records, blobs |-> blobs]]]
    /\ UNCHANGED <<records, blobs, now, deleted>>

CreatesInFlight == Cardinality({q \in Procs : InFlight(req[q]) /\ req[q].op = "create"})

RequestList(p) ==
    \E token \in BOOLEAN :
        Arrive(p, "list", 0, token, FALSE, None, None, FALSE)

RequestCreate(p) ==
    /\ now + CreatesInFlight < MaxCreates
    /\ \E token \in BOOLEAN, hasPrompt \in BOOLEAN :
        \/ Arrive(p, "create", 0, token, FALSE, None, None, hasPrompt)
        \/ \E f \in RawNames, b \in Bytes :
              Arrive(p, "create", 0, token, TRUE, f, b, hasPrompt)

RequestGet(p) ==
    \E i \in ReqIds, token \in BOOLEAN :
        Arrive(p, "get", i, token, FALSE, None, None, FALSE)

RequestUpdate(p) ==
    \E i \in ReqIds, token \in BOOLEAN, hasPrompt \in BOOLEAN :
        \/ Arrive(p, "update", i, token, FALSE, None, None, hasPrompt)
        \/ \E f \in RawNames, b \in Bytes :
              Arrive(p, "update", i, token, TRUE, f, b, hasPrompt)

RequestDelete(p) ==
    \E i \in ReqIds, token \in BOOLEAN :
        Arrive(p, "delete", i, token, FALSE, None, None, FALSE)

\* a gate that lets every request through
jwt_required_open(p) ==
    /\ req[p].pc = "gate"
    /\ req' = [req EXCEPT ![p] =
                 [@ EXCEPT !.pc = CASE req[p].op = "create" -> "check"
                                    [] req[p].op = "update" -> "load"
                                    [] OTHER                -> "query"]]
    /\ UNCHANGED <<records, blobs, now, deleted>>

\* @jwt_required() in front of get_images, create_image, get_image, update_image
jwt_required(p) ==
    /\ req[p].pc = "gate"
    /\ req' = [req EXCEPT ![p] =
                 IF req[p].token
                 THEN [@ EXCEPT !.pc = CASE req[p].op = "create" -> "check"
                                         [] req[p].op = "update" -> "load"
                                         [] OTHER                -> "query"]
                 ELSE Respond(@, 401, "Missing Authorization Header")]
    /\ UNCHANGED <<records, blobs, now, deleted>>

----------------------------------------------------------------------------
(* GET /api/images and GET /api/images/<id> *)

get_images(p) ==
    /\ req[p].pc = "query" /\ req[p].op = "list"
    /\ req' = [req EXCEPT ![p] =
                 Respond(@, 200, {to_dict(records[i]) : i \in DOMAIN records})]
    /\ UNCHANGED <<records, blobs, now, deleted>>

get_image(p) ==
    /\ req[p].pc = "query" /\ req[p].op = "get"
    /\ req' = [req EXCEPT ![p] =
                 IF @.id \in DOMAIN records
                 THEN Respond(@, 200, to_dict(records[@.id]))
                 ELSE Respond(@, 404, "Not Found")]
    /\ UNCHANGED <<records, blobs, now, deleted>>

----------------------------------------------------------------------------
(* The OCR adapter: Client(...).predict(message={..., files: [handle_file(path)]}) *)

\* outcomes of one call on `path`: handle_file raises when the file is not
\* there; otherwise the provider returns a text or the call fails
Predict(path) == IF exists(path) THEN Texts \cup {Failure} ELSE {Failure}

----------------------------------------------------------------------------
(* POST /api/images *)

\* a check that forgets the empty filename
create_image_check_no_filename(p) ==
    /\ req[p].pc = "check" /\ req[p].op = "create"
    /\ req' = [req EXCEPT ![p] =
                 IF ~ @.hasImage THEN Respond(@, 400, "No image provided")
                 ELSE [@ EXCEPT !.pc = "save"]]
    /\ UNCHANGED <<records, blobs, now, deleted>>

create_image_check(p) ==
    /\ req[p].pc = "check" /\ req[p].op = "create"
    /\ req' = [req EXCEPT ![p] =
                 IF ~ @.hasImage THEN Respond(@, 400, "No image provided")
                 ELSE IF @.filename = "" THEN Respond(@, 400, "No selected file")
                 ELSE [@ EXCEPT !.pc = "save"]]
    /\ UNCHANGED <<records, blobs, now, deleted>>

create_image_save(p) ==
    /\ req[p].pc = "save" /\ req[p].op = "create"
    /\ LET image_path == join(UPLOAD_FOLDER, secure_filename(req[p].filename))
       IN  IF IsDir(image_path)
           THEN /\ req' = [req EXCEPT ![p] = Abort(@)]
                /\ UNCHANGED blobs
           ELSE /\ blobs' = save(blobs, image_path, req[p].bytes)
                /\ req' = [req EXCEPT ![p] = [@ EXCEPT !.pc = "predict",
                                                       !.image_path = image_path,
                                                       !.saved = TRUE]]
    /\ UNCHANGED <<records, now, deleted>>

\* a predict wrapped in try/except that goes on without a result
create_image_predict_swallow(p) ==
    /\ req[p].pc = "predict" /\ req[p].op = "create"
    /\ \E result \in Predict(req[p].image_path) :
         req' = [req EXCEPT ![p] =
                   [@ EXCEPT !.pc = "commit",
                             !.result = IF result = Failure THEN None ELSE result,
                             !.ocrCalls = @ + 1, !.ocrPath = req[p].image_path]]
    /\ UNCHANGED <<records, blobs, now, deleted>>

\* a predict that removes the stored file when the call fails
create_image_predict_cleanup(p) ==
    /\ req[p].pc = "predict" /\ req[p].op = "create"
    /\ \E result \in Predict(req[p].image_path) :
         /\ req' = [req EXCEPT ![p] =
                      IF result = Failure
                      THEN Abort([@ EXCEPT !.ocrCalls = @ + 1,
                                           !.ocrPath = req[p].image_path])
                      ELSE [@ EXCEPT !.pc = "commit", !.result = result,
                                     !.ocrCalls = @ + 1,
                                     !.ocrPath = req[p].image_path]]
         /\ blobs' = IF result = Failure THEN remove(blobs, req[p].image_path)
                     ELSE blobs
    /\ UNCHANGED <<records, now, deleted>>

create_image_predict(p) ==
    /\ req[p].pc = "predict" /\ req[p].op = "create"
    /\ \E result \in Predict(req[p].image_path) :
         req' = [req EXCEPT ![p] =
                   IF result = Failure
                   THEN Abort([@ EXCEPT !.ocrCalls = @ + 1, !.ocrPath = req[p].image_path])
                   ELSE [@ EXCEPT !.pc = "commit", !.result = result,
                                  !.ocrCalls = @ + 1, !.ocrPath = req[p].image_path]]
    /\ UNCHANGED <<records, blobs, now, deleted>>

\* a commit whose response is stamped with the time of the response
create_image_commit_restamp(p) ==
    /\ req[p].pc = "commit" /\ req[p].op = "create"
    /\ LET new_image == ImageProcessing(NextId(records), req[p].image_path,
                                        req[p].result, now)
           shown == [new_image EXCEPT !.created_at = now + 1]
       IN  /\ records' = Insert(records, new_image)
           /\ req' = [req EXCEPT ![p] =
                        Respond([@ EXCEPT !.image = new_image, !.id = new_image.id],
                                201, to_dict(shown))]
    /\ now' = now + 1
    /\ UNCHANGED <<blobs, deleted>>

create_image_commit(p) ==
    /\ req[p].pc = "commit" /\ req[p].op = "create"
    /\ LET new_image == ImageProcessing(NextId(records), req[p].image_path,
                                        req[p].result, now)
       IN  /\ records' = Insert(records, new_image)
           /\ req' = [req EXCEPT ![p] =
                        Respond([@ EXCEPT !.image = new_image, !.id = new_image.id],
                                201, to_dict(new_image))]
    /\ now' = now + 1
    /\ UNCHANGED <<blobs, deleted>>

----------------------------------------------------------------------------
(* PUT /api/images/<id> *)

\* a handler that stores the image part before it looks the row up
update_image_load_late(p) ==
    /\ req[p].pc = "load" /\ req[p].op = "update"
    /\ req' = [req EXCEPT ![p] =
                 IF req[p].id \in DOMAIN records
                 THEN [@ EXCEPT !.pc = "save", !.image = records[req[p].id],
                                !.loaded = records[req[p].id]]
                 ELSE Respond(@, 404, "Not Found")]
    /\ blobs' = IF req[p].id \notin DOMAIN records /\ req[p].hasImage
                   /\ ~ IsDir(join(UPLOAD_FOLDER, secure_filename(req[p].filename)))
                THEN save(blobs, join(UPLOAD_FOLDER, secure_filename(req[p].filename)),
                          req[p].bytes)
                ELSE blobs
    /\ UNCHANGED <<records, now, deleted>>

\* ImageProcessing.query.get_or_404(id): the row becomes an object of the
\* request's session; `loaded` keeps the column values as they were read
update_image_load(p) ==
    /\ req[p].pc = "load" /\ req[p].op = "update"
    /\ req' = [req EXCEPT ![p] =
                 IF req[p].id \in DOMAIN records
                 THEN [@ EXCEPT !.pc = "save", !.image = records[req[p].id],
                                !.loaded = records[req[p].id]]
                 ELSE Respond(@, 404, "Not Found")]
    /\ UNCHANGED <<records, blobs, now, deleted>>

\* a save that writes the new path to the table at once
update_image_save_eager(p) ==
    /\ req[p].pc = "save" /\ req[p].op = "update"
    /\ IF req[p].hasImage
       THEN LET image_path == join(UPLOAD_FOLDER, secure_filename(req[p].filename))
            IN  IF IsDir(image_path)
                THEN /\ req' = [req EXCEPT ![p] = Abort(@)]
                     /\ UNCHANGED <<blobs, records>>
                ELSE /\ blobs' = save(blobs, image_path, req[p].bytes)
                     /\ records' = [records EXCEPT ![req[p].id].image_path = image_path]
                     /\ req' = [req EXCEPT ![p] =
                                  [@ EXCEPT !.pc = "predict",
                                            !.image_path = image_path,
                                            !.saved = TRUE,
                                            !.image.image_path = image_path]]
       ELSE /\ req' = [req EXCEPT ![p] = [@ EXCEPT !.pc = "predict"]]
            /\ UNCHANGED <<blobs, records>>
    /\ UNCHANGED <<now, deleted>>

\* a save that removes the file the row referenced before
update_image_save_cleanup(p) ==
    /\ req[p].pc = "save" /\ req[p].op = "update"
    /\ IF req[p].hasImage
       THEN LET image_path == join(UPLOAD_FOLDER, secure_filename(req[p].filename))
                old_path == req[p].image.image_path
            IN  IF IsDir(image_path)
                THEN /\ req' = [req EXCEPT ![p] = Abort(@)]
                     /\ UNCHANGED blobs
                ELSE /\ blobs' = save(IF old_path # image_path
                                      THEN remove(blobs, old_path) ELSE blobs,
                                      image_path, req[p].bytes)
                     /\ req' = [req EXCEPT ![p] =
                                  [@ EXCEPT !.pc = "predict",
                                            !.image_path = image_path,
                                            !.saved = TRUE,
                                            !.image.image_path = image_path]]
       ELSE /\ req' = [req EXCEPT ![p] = [@ EXCEPT !.pc = "predict"]]
            /\ UNCHANGED blobs
    /\ UNCHANGED <<records, now, deleted>>

\* if 'image' in request.files: save the file and set image.image_path
update_image_save(p) ==
    /\ req[p].pc = "save" /\ req[p].op = "update"
    /\ IF req[p].hasImage
       THEN LET image_path == join(UPLOAD_FOLDER, secure_filename(req[p].filename))
            IN  IF IsDir(image_path)
                THEN /\ req' = [req EXCEPT ![p] = Abort(@)]
                     /\ UNCHANGED blobs
                ELSE /\ blobs' = save(blobs, image_path, req[p].bytes)
                     /\ req' = [req EXCEPT ![p] =
                                  [@ EXCEPT !.pc = "predict",
                                            !.image_path = image_path,
                                            !.saved = TRUE,
                                            !.image.image_path = image_path]]
       ELSE /\ req' = [req EXCEPT ![p] = [@ EXCEPT !.pc = "predict"]]
            /\ UNCHANGED blobs
    /\ UNCHANGED <<records, now, deleted>>

\* a predict wrapped in try/except that goes on to the commit
update_image_predict_swallow(p) ==
    /\ req[p].pc = "predict" /\ req[p].op = "update"
    /\ IF req[p].hasPrompt
       THEN \E result \in Predict(req[p].image.image_path) :
              req' = [req EXCEPT ![p] =
                        IF result = Failure
                        THEN [@ EXCEPT !.pc = "commit", !.ocrCalls = @ + 1,
                                       !.ocrPath = req[p].image.image_path]
                        ELSE [@ EXCEPT !.pc = "commit", !.result = result,
                                       !.ocrCalls = @ + 1,
                                       !.ocrPath = req[p].image.image_path,
                                       !.image.text_result = result]]
       ELSE req' = [req EXCEPT ![p] = [@ EXCEPT !.pc = "commit"]]
    /\ UNCHANGED <<records, blobs, now, deleted>>

\* a predict that reads the path the record was loaded with
update_image_predict_stale(p) ==
    /\ req[p].pc = "predict" /\ req[p].op = "update"
    /\ IF req[p].hasPrompt
       THEN \E result \in Predict(req[p].loaded.image_path) :
              req' = [req EXCEPT ![p] =
                        IF result = Failure
                        THEN Abort([@ EXCEPT !.ocrCalls = @ + 1,
                                             !.ocrPath = req[p].loaded.image_path])
                        ELSE [@ EXCEPT !.pc = "commit", !.result = result,
                                       !.ocrCalls = @ + 1,
                                       !.ocrPath = req[p].loaded.image_path,
                                       !.image.text_result = result]]
       ELSE req' = [req EXCEPT ![p] = [@ EXCEPT !.pc = "commit"]]
    /\ UNCHANGED <<records, blobs, now, deleted>>

\* a predict that falls back to an empty text when the call fails
update_image_predict_default(p) ==
    /\ req[p].pc = "predict" /\ req[p].op = "update"
    /\ IF req[p].hasPrompt
       THEN \E result \in Predict(req[p].image.image_path) :
              req' = [req EXCEPT ![p] =
                        [@ EXCEPT !.pc = "commit",
                                  !.result = IF result = Failure THEN None ELSE result,
                                  !.ocrCalls = @ + 1,
                                  !.ocrPath = req[p].image.image_path,
                                  !.image.text_result =
                                      IF result = Failure THEN "" ELSE result]]
       ELSE req' = [req EXCEPT ![p] = [@ EXCEPT !.pc = "commit"]]
    /\ UNCHANGED <<records, blobs, now, deleted>>

\* a predict that runs whether or not the form has a prompt
update_image_predict_always(p) ==
    /\ req[p].pc = "predict" /\ req[p].op = "update"
    /\ \E result \in Predict(req[p].image.image_path) :
         req' = [req EXCEPT ![p] =
                   IF result = Failure
                   THEN Abort([@ EXCEPT !.ocrCalls = @ + 1,
                                        !.ocrPath = req[p].image.image_path])
                   ELSE [@ EXCEPT !.pc = "commit", !.result = result,
                                  !.ocrCalls = @ + 1,
                                  !.ocrPath = req[p].image.image_path,
                                  !.image.text_result = result]]
    /\ UNCHANGED <<records, blobs, now, deleted>>

\* if 'prompt' in request.form: predict on image.image_path, set image.text_result
update_image_predict(p) ==
    /\ req[p].pc = "predict" /\ req[p].op = "update"
    /\ IF req[p].hasPrompt
       THEN \E result \in Predict(req[p].image.image_path) :
              req' = [req EXCEPT ![p] =
                        IF result = Failure
                        THEN Abort([@ EXCEPT !.ocrCalls = @ + 1,
                                             !.ocrPath = req[p].image.image_path])
                        ELSE [@ EXCEPT !.pc = "commit", !.result = result,
                                       !.ocrCalls = @ + 1,
                                       !.ocrPath = req[p].image.image_path,
                                       !.image.text_result = result]]
       ELSE req' = [req EXCEPT ![p] = [@ EXCEPT !.pc = "commit"]]
    /\ UNCHANGED <<records, blobs, now, deleted>>

\* an UPDATE that also stamps the row with the time of the update
Flush_touch(row, image, loaded) ==
    [row EXCEPT !.image_path  = image.image_path,
                !.text_result = image.text_result,
                !.created_at  = now]

\* the UPDATE that session.commit() emits: it sets the columns whose value
\* differs from the loaded one, on the row with the object's primary key
Flush(row, image, loaded) ==
    [row EXCEPT !.image_path  = IF image.image_path # loaded.image_path
                                THEN image.image_path ELSE @,
                !.text_result = IF image.text_result # loaded.text_result
                                THEN image.text_result ELSE @]

\* a commit that writes the session object back whether or not its row exists
update_image_commit_upsert(p) ==
    /\ req[p].pc = "commit" /\ req[p].op = "update"
    /\ LET row == IF req[p].id \in DOMAIN records
                  THEN Flush(records[req[p].id], req[p].image, req[p].loaded)
                  ELSE req[p].image
       IN  /\ records' = Insert(records, row)
           /\ req' = [req EXCEPT ![p] =
                        Respond([@ EXCEPT !.image = row], 200, to_dict(row))]
    /\ UNCHANGED <<blobs, now, deleted>>

\* db.session.commit(); return jsonify(image.to_dict())
\* (when the row is gone the commit or the reload of the expired object raises)
update_image_commit(p) ==
    /\ req[p].pc = "commit" /\ req[p].op = "update"
    /\ IF req[p].id \in DOMAIN records
       THEN LET row == Flush(records[req[p].id], req[p].image, req[p].loaded)
            IN  /\ records' = [records EXCEPT ![req[p].id] = row]
                /\ req' = [req EXCEPT ![p] =
                             Respond([@ EXCEPT !.image = row], 200, to_dict(row))]
       ELSE /\ req' = [req EXCEPT ![p] = Abort(@)]
            /\ UNCHANGED records
    /\ UNCHANGED <<blobs, now, deleted>>

----------------------------------------------------------------------------
(* DELETE /api/images/<id>: no @jwt_required() *)

delete_image_load(p) ==
    /\ req[p].pc = "load" /\ req[p].op = "delete"
    /\ req' = [req EXCEPT ![p] =
                 IF req[p].id \in DOMAIN records
                 THEN [@ EXCEPT !.pc = "exists", !.image = records[req[p].id],
                                !.loaded = records[req[p].id]]
                 ELSE Respond(@, 404, "Not Found")]
    /\ UNCHANGED <<records, blobs, now, deleted>>

\* a handler that removes the file without asking whether it exists
delete_image_exists_always(p) ==
    /\ req[p].pc = "exists" /\ req[p].op = "delete"
    /\ req' = [req EXCEPT ![p] = [@ EXCEPT !.pc = "remove", !.found = TRUE]]
    /\ UNCHANGED <<records, blobs, now, deleted>>

\* if os.path.exists(image.image_path):
delete_image_exists(p) ==
    /\ req[p].pc = "exists" /\ req[p].op = "delete"
    /\ req' = [req EXCEPT ![p] =
                 [@ EXCEPT !.pc = "remove",
                           !.found = exists(req[p].image.image_path)]]
    /\ UNCHANGED <<records, blobs, now, deleted>>

\*     os.remove(image.image_path)   (raises when the file has gone meanwhile)
delete_image_remove(p) ==
    /\ req[p].pc = "remove" /\ req[p].op = "delete"
    /\ IF req[p].found
       THEN IF exists(req[p].image.image_path)
            THEN /\ blobs' = remove(blobs, req[p].image.image_path)
                 /\ req' = [req EXCEPT ![p] = [@ EXCEPT !.pc = "commit"]]
            ELSE /\ req' = [req EXCEPT ![p] = Abort(@)]
                 /\ UNCHANGED blobs
       ELSE /\ req' = [req EXCEPT ![p] = [@ EXCEPT !.pc = "commit"]]
            /\ UNCHANGED blobs
    /\ UNCHANGED <<records, now, deleted>>

\* db.session.delete(image); db.session.commit(); return '', 204
delete_image_commit(p) ==
    /\ req[p].pc = "commit" /\ req[p].op = "delete"
    /\ records' = DeleteRow(records, req[p].id)
    /\ deleted' = deleted \cup {req[p].id}
    /\ req' = [req EXCEPT ![p] = Respond(@, 204, "")]
    /\ UNCHANGED <<blobs, now>>

----------------------------------------------------------------------------

Init ==
    /\ records = <<>>
    /\ blobs = <<>>
    /\ now = 0
    /\ deleted = {}
    /\ createdAs = <<>>
    /\ lastCommit = <<>>
    /\ req = [p \in Procs |-> Idle]

Step(p) ==
    \/ Return(p)
    \/ RequestList(p)
    \/ RequestCreate(p)
    \/ RequestGet(p)
    \/ RequestUpdate(p)
    \/ RequestDelete(p)
    \/ jwt_required(p)
    \/ get_images(p)
    \/ get_image(p)
    \/ create_image_check(p)
    \/ create_image_save(p)
    \/ create_image_predict(p)
    \/ create_image_commit(p)
    \/ update_image_load(p)
    \/ update_image_save(p)
    \/ update_image_predict(p)
    \/ update_image_commit(p)
    \/ delete_image_load(p)
    \/ delete_image_exists(p)
    \/ delete_image_remove(p)
    \/ delete_image_commit(p)

\* requests are handled one at a time; the history of commits is not kept
Next == (\E p \in SeqProcs : Step(p)) /\ UNCHANGED <<createdAs, lastCommit>>

Spec == Init /\ [][Next]_vars

----------------------------------------------------------------------------
(* History of the commits, read off the step a handler takes *)

\* worker p commits in this step: create_image (l.182), update_image (l.286)
\* or delete_image (l.315) returns its success response
Commits(p, op) ==
    /\ req[p].pc = "commit" /\ req[p].op = op
    /\ req'[p].pc = "done" /\ req'[p].status \in {200, 201, 204}

\* createdAs gets the object a Create returns and loses the id an Update or
\* a Delete commits
TrackCreated ==
    createdAs' =
        IF \E p \in Procs : Commits(p, "create")
        THEN LET p == CHOOSE q \in Procs : Commits(q, "create")
             IN  Remember(createdAs, req'[p].id, req'[p].body)
        ELSE IF \E p \in Procs : Commits(p, "update") \/ Commits(p, "delete")
        THEN LET p == CHOOSE q \in Procs : Commits(q, "update") \/ Commits(q, "delete")
             IN  Forget(createdAs, req[p].id)
        ELSE createdAs

\* lastCommit gets the worker whose Update commits and loses the id a Delete
\* commits
TrackCommit ==
    lastCommit' =
        IF \E p \in Procs : Commits(p, "update")
        THEN LET p == CHOOSE q \in Procs : Commits(q, "update")
             IN  Remember(lastCommit, req[p].id, p)
        ELSE IF \E p \in Procs : Commits(p, "delete")
        THEN LET p == CHOOSE q \in Procs : Commits(q, "delete")
             IN  Forget(lastCommit, req[p].id)
        ELSE lastCommit

----------------------------------------------------------------------------
(* Concurrent requests on one record *)

\* the table after Create(image "b.png") has returned "other text"
ConcRecords == <<ImageProcessing(NextId(<<>>), join(UPLOAD_FOLDER, "b.png"), "other text", 0)>>

\* filenames of the image parts of the concurrent Updates
ConcNames == {"receipt.png", "b.png"}

InitConc ==
    /\ records = ConcRecords
    /\ blobs = save(<<>>, join(UPLOAD_FOLDER, "b.png"), "img1")
    /\ now = Len(ConcRecords)
    /\ deleted = {}
    /\ createdAs = [i \in DOMAIN ConcRecords |-> to_dict(ConcRecords[i])]
    /\ lastCommit = <<>>
    /\ req = [p \in Procs |-> Idle]

RequestConc(p) ==
    \E i \in DOMAIN ConcRecords :
        \/ \E hasPrompt \in BOOLEAN :
              \/ Arrive(p, "update", i, TRUE, FALSE, None, None, hasPrompt)
              \/ \E f \in ConcNames, b \in Bytes :
                    Arrive(p, "update", i, TRUE, TRUE, f, b, hasPrompt)
        \/ Arrive(p, "delete", i, FALSE, FALSE, None, None, FALSE)

\* each worker handles one request
Handle(p) ==
    \/ jwt_required(p)
    \/ update_image_load(p)
    \/ update_image_save(p)
    \/ update_image_predict(p)
    \/ update_image_commit(p)
    \/ delete_image_load(p)
    \/ delete_image_exists(p)
    \/ delete_image_remove(p)
    \/ delete_image_commit(p)

NextConc ==
    (\E p \in Procs : RequestConc(p) \/ Handle(p)) /\ TrackCommit /\ UNCHANGED createdAs

SpecConc == InitConc /\ [][NextConc]_vars

----------------------------------------------------------------------------
(* Round trips: authenticated requests one at a time *)

\* authenticated requests on the rows, with image parts that can be stored
RequestRound(p) ==
    \/ /\ now + CreatesInFlight < MaxCreates
       /\ \E f \in ConcNames, b \in Bytes :
             Arrive(p, "create", 0, TRUE, TRUE, f, b, FALSE)
    \/ \E i \in ReqIds :
          \/ Arrive(p, "get", i, TRUE, FALSE, None, None, FALSE)
          \/ Arrive(p, "delete", i, TRUE, FALSE, None, None, FALSE)
          \/ \E hasPrompt \in BOOLEAN :
                \/ Arrive(p, "update", i, TRUE, FALSE, None, None, hasPrompt)
                \/ \E f \in ConcNames, b \in Bytes :
                      Arrive(p, "update", i, TRUE, TRUE, f, b, hasPrompt)

StepRound(p) ==
    \/ RequestRound(p)
    \/ Return(p)
    \/ get_image(p)
    \/ create_image_check(p)
    \/ create_image_save(p)
    \/ create_image_predict(p)
    \/ create_image_commit(p)
    \/ Handle(p)

\* requests handled one at a time, with the history of the Creates
NextRound == (\E p \in SeqProcs : StepRound(p)) /\ TrackCreated /\ UNCHANGED lastCommit

SpecRound == Init /\ [][NextRound]_vars

----------------------------------------------------------------------------
(* Properties *)

Returned(p, op) == req[p].pc = "done" /\ req[p].op = op

\* the request made an OCR call and the call failed
OcrFailed(r) == r.ocrCalls > 0 /\ r.result = None

\* the request made an OCR call and the call returned a text
OcrSucceeded(r) == r.ocrCalls > 0 /\ r.result \in Texts

\* no request is being handled
Quiescent == \A p \in Procs : ~InFlight(req[p])

\* C1: a Create with an image part and a non-empty filename whose OCR call
\* succeeds returns 201 with a record whose text_result is the text that call
\* returned and whose image_path names a file that exists when it returns.
C1_CreateReturnsOcrText ==
    \A p \in Procs :
        (Returned(p, "create") /\ req[p].hasImage /\ req[p].filename # ""
            /\ OcrSucceeded(req[p]))
        => /\ req[p].status = 201
           /\ req[p].body.text_result = req[p].result
           /\ exists(req[p].body.image_path)

C1_Witness ==
    \E p \in Procs :
        /\ Returned(p, "create") /\ req[p].status = 201
        /\ req[p].filename = "../receipt.png"
        /\ req[p].body.image_path = "uploads/receipt.png"
        /\ req[p].body.text_result = "TOTAL: $42.10"

\* C2: a Create whose OCR call fails returns a failure and leaves the table
\* as it was before the request; a Create that inserted a row had a
\* successful OCR call before.
C2_CreateAllOrNothing ==
    \A p \in Procs :
        /\ (Returned(p, "create") /\ OcrFailed(req[p]))
              => (req[p].status = 500 /\ records = req[p].pre.records)
        /\ (Returned(p, "create") /\ records # req[p].pre.records)
              => OcrSucceeded(req[p])

C2_Witness ==
    \E p \in Procs :
        /\ Returned(p, "create") /\ OcrFailed(req[p])
        /\ req[p].saved /\ req[p].pre.records # <<>>

\* C3: an authenticated Create without an image part, or with an image part
\* whose filename is empty, returns 400 and writes no file, inserts no row
\* and makes no OCR call.
C3_CreateValidation ==
    \A p \in Procs :
        (Returned(p, "create") /\ req[p].token
            /\ (~ req[p].hasImage \/ req[p].filename = ""))
        => /\ req[p].status = 400
           /\ blobs = req[p].pre.blobs
           /\ records = req[p].pre.records
           /\ req[p].ocrCalls = 0
           /\ ~ req[p].saved

C3_Witness ==
    \E p \in Procs :
        /\ Returned(p, "create") /\ req[p].status = 400
        /\ req[p].hasImage /\ req[p].filename = ""

\* C4: between requests, every row of the table has an image_path that names
\* an existing file.
C4_EveryRecordHasBlob ==
    Quiescent => \A i \in DOMAIN records : exists(records[i].image_path)

\* C5: when a Delete of an existing record returns 204 the row is gone and
\* no file exists at the path the row had, and the authenticated Get of the
\* same id that follows it returns 404.
C5_DeleteThenGet ==
    \A p \in Procs :
        /\ (Returned(p, "delete") /\ req[p].status = 204)
              => /\ req[p].id \notin DOMAIN records
                 /\ ~ exists(req[p].image.image_path)
        /\ (Returned(p, "get") /\ req[p].token /\ req[p].afterDelete = req[p].id)
              => req[p].status = 404

C5_Witness ==
    \E p \in Procs :
        /\ Returned(p, "get") /\ req[p].afterDelete = req[p].id
        /\ req[p].status = 404
        /\ DOMAIN records # {}

\* C6: an id that has been deleted is never the id of a row again.
C6_IdNeverReused == \A i \in DOMAIN records : i \notin deleted

\* C7: an Update with an image part and a prompt whose OCR call fails returns
\* a failure, and the row still has the image_path and the text_result it had
\* before the request, which is what the next Get returns.
C7_UpdateOcrFailureKeepsRecord ==
    \A p \in Procs :
        (Returned(p, "update") /\ req[p].hasImage /\ req[p].hasPrompt
            /\ OcrFailed(req[p]))
        => /\ req[p].status = 500
           /\ req[p].id \in DOMAIN records
           /\ to_dict(records[req[p].id]) = to_dict(req[p].pre.records[req[p].id])

C7_Witness ==
    \E p \in Procs :
        /\ Returned(p, "update") /\ req[p].hasImage /\ req[p].hasPrompt
        /\ OcrFailed(req[p])
        /\ req[p].image_path # req[p].pre.records[req[p].id].image_path

\* C8 as stated: after an Update with an image part and a prompt whose OCR
\* call fails, the new file exists and the row shows the new image_path.
C8_ImageSwapDurable ==
    \A p \in Procs :
        (Returned(p, "update") /\ req[p].hasImage /\ req[p].hasPrompt
            /\ OcrFailed(req[p]))
        => /\ exists(req[p].image_path)
           /\ records[req[p].id].image_path = req[p].image_path

\* C8 as amended: in an Update with an image part and a prompt the file is
\* written before the OCR call, and after a failed OCR call the file written
\* is still there with the uploaded bytes, while the row keeps the image_path
\* it had before the request.
C8_BlobWriteDurable ==
    \A p \in Procs :
        /\ (req[p].op = "update" /\ req[p].hasImage /\ req[p].ocrCalls > 0)
              => req[p].saved
        /\ (Returned(p, "update") /\ req[p].hasImage /\ req[p].hasPrompt
               /\ OcrFailed(req[p]))
              => /\ exists(req[p].image_path)
                 /\ blobs[req[p].image_path] = req[p].bytes
                 /\ records[req[p].id].image_path
                       = req[p].pre.records[req[p].id].image_path

C8_Witness ==
    \E p \in Procs :
        /\ Returned(p, "update") /\ req[p].hasImage /\ req[p].hasPrompt
        /\ OcrFailed(req[p])
        /\ req[p].image_path \notin DOMAIN req[p].pre.blobs
        /\ records[req[p].id].image_path # req[p].image_path

\* C9: an Update of an existing id with a prompt and no image part whose OCR
\* call succeeds returns 200 and changes nothing but the text_result of that
\* row, which becomes the text the call returned.
C9_PromptOnlyUpdateFrame ==
    \A p \in Procs :
        (Returned(p, "update") /\ ~ req[p].hasImage /\ req[p].hasPrompt
            /\ OcrSucceeded(req[p]))
        => /\ req[p].status = 200
           /\ records = [req[p].pre.records EXCEPT
                            ![req[p].id].text_result = req[p].result]
           /\ blobs = req[p].pre.blobs

C9_Witness ==
    \E p \in Procs :
        /\ Returned(p, "update") /\ ~ req[p].hasImage /\ req[p].hasPrompt
        /\ OcrSucceeded(req[p])
        /\ req[p].result # req[p].pre.records[req[p].id].text_result
        /\ Cardinality(DOMAIN records) = 2
        /\ req[p].pre.records[req[p].id].created_at # now

\* the path an Update's OCR call has to read: the one of the file it stored,
\* or else the one the row had
CurrentPath(r) ==
    IF r.hasImage THEN join(UPLOAD_FOLDER, secure_filename(r.filename))
    ELSE r.pre.records[r.id].image_path

\* the Update gets as far as its prompt: the record exists and the image
\* part, if there is one, has a filename the file can be stored under
ReachesPrompt(r) ==
    /\ r.op = "update" /\ r.token /\ r.hasPrompt
    /\ r.id \in DOMAIN r.pre.records
    /\ r.hasImage => ~ IsDir(join(UPLOAD_FOLDER, secure_filename(r.filename)))

\* C10: an Update with a prompt that gets as far as its prompt makes exactly
\* one OCR call, on the path of the file it has just stored if it has an
\* image part and on the row's path otherwise, and when the call succeeds the
\* row's text_result is the text of that call.
C10_UpdateOcrOnCurrentPath ==
    \A p \in Procs :
        /\ req[p].op = "update" => req[p].ocrCalls <= 1
        /\ (req[p].op = "update" /\ req[p].ocrCalls = 1)
              => /\ req[p].ocrPath = CurrentPath(req[p])
                 /\ req[p].hasImage => req[p].saved
        /\ (req[p].pc = "done" /\ ReachesPrompt(req[p]))
              => /\ req[p].ocrCalls = 1
                 /\ OcrSucceeded(req[p])
                       => /\ req[p].status = 200
                          /\ records[req[p].id].text_result = req[p].result

C10_Witness ==
    \E p \in Procs :
        /\ Returned(p, "update") /\ ReachesPrompt(req[p]) /\ req[p].hasImage
        /\ OcrSucceeded(req[p])
        /\ req[p].ocrPath # req[p].pre.records[req[p].id].image_path
        /\ req[p].result # req[p].pre.records[req[p].id].text_result

\* C11: the text_result of every row is a text an OCR call returned: a
\* request changes a row's text_result, or inserts a row, only as a Create or
\* an Update of that row whose OCR call succeeded, and to the text of that
\* call; a Create or Update whose OCR call fails returns a failure.
C11_NoDefaultText ==
    /\ \A i \in DOMAIN records : records[i].text_result \in Texts
    /\ \A p \in Procs :
         /\ req[p].pc # "idle" =>
              \A i \in DOMAIN records :
                  (\/ i \notin DOMAIN req[p].pre.records
                   \/ records[i].text_result # req[p].pre.records[i].text_result)
                  => /\ req[p].op \in {"create", "update"}
                     /\ OcrSucceeded(req[p])
                     /\ i = req[p].id
                     /\ records[i].text_result = req[p].result
         /\ (req[p].pc = "done" /\ req[p].op \in {"create", "update"}
                /\ OcrFailed(req[p]))
              => req[p].status = 500

C11_Witness ==
    \E p \in Procs :
        /\ Returned(p, "update") /\ ~ req[p].hasImage /\ req[p].hasPrompt
        /\ OcrFailed(req[p]) /\ req[p].status = 500
        /\ records[req[p].id].text_result \in Texts

\* C12: an authenticated Get of an id whose row has been created and not
\* updated or deleted since returns 200 with the object the Create returned,
\* equal in id, image_path, text_result and created_at.
C12_GetAfterCreate ==
    \A p \in Procs :
        (Returned(p, "get") /\ req[p].token /\ req[p].id \in DOMAIN createdAs)
        => /\ req[p].status = 200
           /\ req[p].body = createdAs[req[p].id]

C12_Witness ==
    \E p \in Procs :
        /\ Returned(p, "get") /\ req[p].status = 200
        /\ req[p].id \in DOMAIN createdAs
        /\ req[p].body = createdAs[req[p].id]
        /\ req[p].body.created_at = isoformat(1)

\* C13: once two concurrent Updates of the same row have both returned 200,
\* the row has the image_path and the text_result that the Update which
\* committed last supplied.
C13_LastWriterWins ==
    \A p, q \in Procs :
        (/\ p # q
         /\ Returned(p, "update") /\ req[p].status = 200
         /\ Returned(q, "update") /\ req[q].status = 200
         /\ req[p].id = req[q].id
         /\ req[p].id \in DOMAIN records
         /\ req[p].id \in DOMAIN lastCommit
         /\ lastCommit[req[p].id] = p)
        => /\ req[p].hasImage
                 => records[req[p].id].image_path = req[p].image_path
           /\ req[p].hasPrompt
                 => records[req[p].id].text_result = req[p].result

\* C20: from the moment a Delete of a row has returned 204, the row is absent
\* whatever an Update of the same id that was in flight does afterwards.
C20_DeleteNotUndone ==
    \A p, q \in Procs :
        (/\ req[p].op = "update"
         /\ Returned(q, "delete") /\ req[q].status = 204
         /\ req[q].id = req[p].id)
        => req[p].id \notin DOMAIN records

C20_Witness ==
    \E p, q \in Procs :
        /\ Returned(q, "delete") /\ req[q].status = 204
        /\ Returned(p, "update") /\ req[p].id = req[q].id
        /\ req[p].saved /\ ~ req[p].hasPrompt /\ req[p].status = 500
        /\ req[p].id \notin DOMAIN records

C15_NotFound ==
    \A p \in Procs :
        (/\ req[p].pc = "done" /\ req[p].op \in {"get", "update", "delete"}
         /\ (req[p].token \/ req[p].op = "delete")
         /\ req[p].id \notin DOMAIN req[p].pre.records)
        => /\ req[p].status = 404
           /\ records = req[p].pre.records
           /\ blobs = req[p].pre.blobs
           /\ req[p].ocrCalls = 0
           /\ ~ req[p].saved

C15_Witness ==
    \E p \in Procs :
        /\ Returned(p, "update") /\ req[p].status = 404
        /\ req[p].hasImage /\ req[p].filename = "receipt.png" /\ req[p].hasPrompt
        /\ ~ exists("uploads/receipt.png")

\* the image part has a filename the file can be stored under
Storable(r) ==
    r.hasImage /\ ~ IsDir(join(UPLOAD_FOLDER, secure_filename(r.filename)))

\* C16: an Update of an existing row with a storable image part and no prompt
\* returns 200, makes no OCR call and changes nothing in the table but the
\* image_path of that row, which becomes the stored path; and no Update,
\* whatever it carries, removes a row or changes the id or created_at of one.
C16_ImageOnlyUpdateFrame ==
    \A p \in Procs :
        /\ (Returned(p, "update") /\ req[p].token /\ Storable(req[p])
               /\ ~ req[p].hasPrompt /\ req[p].id \in DOMAIN req[p].pre.records)
              => /\ req[p].status = 200
                 /\ req[p].ocrCalls = 0
                 /\ records = [req[p].pre.records EXCEPT
                                  ![req[p].id].image_path = CurrentPath(req[p])]
        /\ req[p].op = "update"
              => \A i \in DOMAIN req[p].pre.records :
                    /\ i \in DOMAIN records
                    /\ records[i].id = req[p].pre.records[i].id
                    /\ records[i].created_at = req[p].pre.records[i].created_at

C16_Witness ==
    \E p \in Procs :
        /\ Returned(p, "update") /\ req[p].status = 200
        /\ req[p].hasImage /\ ~ req[p].hasPrompt
        /\ records[req[p].id].image_path # req[p].pre.records[req[p].id].image_path
        /\ records[req[p].id].created_at # now - 1

\* C17: an Update that stores an image removes no file; when the stored path
\* differs from the path the row had, the file at the old path is still there
\* with its bytes, and after a 200 the row has the new path.
C17_OldBlobKept ==
    \A p \in Procs :
        (Returned(p, "update") /\ req[p].saved)
        => LET old == req[p].pre.records[req[p].id].image_path
               new == req[p].image_path
           IN  /\ DOMAIN req[p].pre.blobs \subseteq DOMAIN blobs
               /\ (new # old /\ old \in DOMAIN req[p].pre.blobs)
                     => blobs[old] = req[p].pre.blobs[old]
               /\ (new # old /\ req[p].status = 200)
                     => records[req[p].id].image_path = new

C17_Witness ==
    \E p \in Procs :
        /\ Returned(p, "update") /\ req[p].saved /\ req[p].status = 200
        /\ req[p].image_path # req[p].pre.records[req[p].id].image_path
        /\ exists(req[p].pre.records[req[p].id].image_path)
        /\ \A i \in DOMAIN records :
              records[i].image_path # req[p].pre.records[req[p].id].image_path

\* C18: a Delete of an existing row has removed the file, if there was one,
\* while the row is still in the table, and then returns 204 with the row
\* gone, also when no file existed at the row's path.
C18_DeleteToleratesMissingBlob ==
    \A p \in Procs :
        /\ (req[p].op = "delete" /\ req[p].pc = "commit")
              => /\ req[p].id \in DOMAIN records
                 /\ ~ exists(req[p].image.image_path)
        /\ (Returned(p, "delete") /\ req[p].id \in DOMAIN req[p].pre.records)
              => /\ req[p].status = 204
                 /\ req[p].id \notin DOMAIN records
                 /\ blobs = remove(req[p].pre.blobs,
                                   req[p].pre.records[req[p].id].image_path)

C18_Witness ==
    \E p \in Procs :
        /\ Returned(p, "delete") /\ req[p].status = 204
        /\ req[p].pre.records[req[p].id].image_path \notin DOMAIN req[p].pre.blobs

\* C19: a Create calls OCR only after it has stored the file, and when the
\* call fails the files are those from before the request with the uploaded
\* bytes at the computed path, in place of whatever was there, and the table
\* is as before.
C19_CreateKeepsBlobOnFailure ==
    \A p \in Procs :
        /\ (req[p].op = "create" /\ req[p].ocrCalls > 0) => req[p].saved
        /\ (Returned(p, "create") /\ OcrFailed(req[p]))
              => /\ req[p].status = 500
                 /\ blobs = save(req[p].pre.blobs, req[p].image_path, req[p].bytes)
                 /\ req[p].image_path
                       = join(UPLOAD_FOLDER, secure_filename(req[p].filename))
                 /\ records = req[p].pre.records

C19_Witness ==
    \E p \in Procs :
        /\ Returned(p, "create") /\ OcrFailed(req[p])
        /\ req[p].image_path \in DOMAIN req[p].pre.blobs
        /\ req[p].pre.blobs[req[p].image_path] # req[p].bytes
        /\ blobs[req[p].image_path] = req[p].bytes

====
